---- MODULE Spec2Model ----
(***************************************************************************)
(* WorkflowCraft: the SOD policy test endpoint                             *)
(*   POST /api/workflows/test-sod-policy        (src/server/routes.ts)     *)
(*                                                                         *)
(* The handler is an async function without any await: Node runs it to     *)
(* completion on the single JavaScript thread.  Requests arrive at any     *)
(* time; `cur` is the invocation whose handler holds the thread.           *)
(*                                                                         *)
(* JavaScript values are tagged records.  A policy script is a source      *)
(* text; Program gives what the text does when it is embedded in the       *)
(* handler's wrapper and run by the vm module.  Effects of a script on     *)
(* the host realm are modelled as far as data goes: a script can store a   *)
(* reference on the prototype its bindings share (hostProto) and read it   *)
(* back.                                                                   *)
(***************************************************************************)
EXTENDS Integers, Sequences, FiniteSets, TLC

VARIABLES req, pc, hist, sandbox, thrown, elapsed, resp, cur, unwatched,
          hostProto, seen, compiles, contexts, runs,
          users, workflows, jobs, currentUserId, currentWorkflowId,
          currentJobId, now, out,
          testResult, settled,
          nodes, edges, selectedNode, showSODEditor, code, isUnsaved,
          currentWorkflow, saving

\* the fields of the MemStorage object
storage ==
  <<users, workflows, jobs, currentUserId, currentWorkflowId, currentJobId>>

\* the state of the browser: the SOD policy editor and the workflow editor
panel == <<testResult, settled>>
editor == <<nodes, edges, selectedNode, showSODEditor, code, isUnsaved,
            currentWorkflow, saving>>
client == <<panel, editor>>

vars == <<req, pc, hist, sandbox, thrown, elapsed, resp, cur, unwatched,
          hostProto, seen, compiles, contexts, runs, storage, now, out,
          client>>

\* req[i]       the body of request i as the handler destructured it
\* pc[i]        the evaluator's state for i: None (no request), Idle,
\*              Rejected, Compiling, Running, CompileFailed, Succeeded, Threw,
\*              TimedOut
\* hist[i]      the states i went through, in order
\* sandbox[i]   the sandbox object {user, action, context, result} of i
\* thrown[i]    the exception on its way to the handler's catch
\* elapsed[i]   the time the watchdog of runInContext has counted for i
\* resp[i]      the responses sent for i
\* cur          the invocation whose handler runs (0: the thread is free)
\* unwatched    the invocation whose script code runs on the host thread
\*              outside runInContext, where no timeout applies (0: none)
\* hostProto    the invocation whose user object the host Object.prototype
\*              refers to (0: none)
\* seen[i]      the invocations whose bindings the script of i has read
\* compiles[i], contexts[i], runs[i]
\*              how often new vm.Script, vm.createContext and runInContext
\*              were called for i
\* users, workflows, jobs
\*              the maps of MemStorage: id -> stored record
\* currentUserId, currentWorkflowId, currentJobId
\*              the next id MemStorage assigns in each map
\* now          the reading of the host's clock (new Date())
\* out          the response of the workflow route that was called last
\* testResult   the test result the SOD policy editor holds (null: none)
\* settled      how the editor's test request ended: resolved with a parsed
\*              body or rejected (none: not yet)
\* nodes, edges the node list and the edge list of WorkflowEditor
\* selectedNode, showSODEditor
\*              the node handed to the SOD policy editor, and whether the
\*              editor is shown
\* code         the text in the SOD policy editor
\* isUnsaved    the flag WorkflowEditor keeps for changes that are not saved
\* currentWorkflow
\*              the workflow the last successful save returned (null: none)
\* saving       the body of the save request that is in flight (none: no
\*              request)

\* ---------------------------------------------------------------- bounds
MaxRequests == 2
TickMs == 2500
MaxWorkflowId == 2
MaxTime == 1
MaxNodes == 2
MaxEdges == 1
MaxJobId == 1

\* ------------------------------------------------------ program constants
TimeoutMs == 5000

Ids == 1..MaxRequests

\* -------------------------------------------------------- JavaScript values
Undefined == [t |-> "undefined"]
Null == [t |-> "null"]
Bool(b) == [t |-> "boolean", b |-> b]
Num(n) == [t |-> "number", n |-> n]
Str(s) == [t |-> "string", s |-> s]
Obj(p) == [t |-> "object", p |-> p]
Fun(f) == [t |-> "function", f |-> f]
\* a property that refers back to the object that holds it
Cycle == [t |-> "cycle"]
\* an Error object: the realm is the context whose Error constructor made it
Err(realm, name, message) ==
  [t |-> "error", realm |-> realm, name |-> name, message |-> message]

Arr(a) == [t |-> "array", a |-> a]

EmptyObj == Obj([k \in {} |-> Undefined])
NoValue == [t |-> "none"]

\* ToBoolean, as the ! operator applies it
Truthy(v) ==
  CASE v.t = "undefined" -> FALSE
    [] v.t = "null" -> FALSE
    [] v.t = "boolean" -> v.b
    [] v.t = "number" -> v.n # 0
    [] v.t = "string" -> v.s # ""
    [] OTHER -> TRUE

\* the value of  v.name
GetProp(v, name) ==
  CASE v.t = "object" -> IF name \in DOMAIN v.p THEN v.p[name] ELSE Undefined
    [] v.t = "error" -> IF name = "message" THEN v.message ELSE Undefined
    [] OTHER -> Undefined

\* ------------------------------------------------------------ JSON.stringify
\* what JSON.stringify does with a value: it calls toJSON when the value has
\* one, throws on a cycle, drops undefined and function properties and
\* writes null for such an element of an array
RECURSIVE StringifyHangs(_)
StringifyHangs(v) ==
  /\ v.t = "object"
  /\ \/ /\ "toJSON" \in DOMAIN v.p
        /\ v.p["toJSON"] = Fun("loop")
     \/ \E k \in DOMAIN v.p : StringifyHangs(v.p[k])

RECURSIVE StringifyThrows(_)
StringifyThrows(v) ==
  /\ v.t = "object"
  /\ \E k \in DOMAIN v.p : v.p[k] = Cycle \/ StringifyThrows(v.p[k])

JsonKeeps(v) == v.t \notin {"undefined", "function"}

RECURSIVE Json(_)
Json(v) ==
  CASE v.t = "object" ->
         Obj([k \in {n \in DOMAIN v.p : JsonKeeps(v.p[n])} |-> Json(v.p[k])])
    [] v.t = "error" -> EmptyObj
    [] v.t = "array" ->
         Arr([k \in DOMAIN v.a |-> IF JsonKeeps(v.a[k]) THEN Json(v.a[k]) ELSE Null])
    [] OTHER -> v

CircularMessage == "Converting circular structure to JSON"

\* ------------------------------------------------------------ policy scripts
SrcValid == "function validateSOD(user, action, context) { return { valid: true }; }"
SrcInvalid == "function validateSOD(user, action, context) { return { valid: false, reason: 'R' }; }"
SrcLimit == "function validateSOD(user,action){ if(action.amount > user.approvalLimit) return {valid:false, reason:'over limit'}; return {valid:true}; }"
SrcThrowX == "function validateSOD() { throw new Error('X'); }"
SrcThrowString == "function validateSOD() { throw 'X'; }"
SrcThrowNull == "function validateSOD() { throw null; }"
SrcNoDefine == "var limit = 100;"
SrcNotCallable == "var validateSOD = 1;"
SrcSyntax == "function validateSOD( {"
SrcInject == "} catch (e) { } try {"
SrcBodyLoop == "while (true) { }"
SrcFnLoop == "function validateSOD() { while (true) { } }"
SrcNoReturn == "function validateSOD() { }"
SrcToJSONLoop == "function validateSOD() { return { valid: true, toJSON() { for (;;) { } } }; }"
SrcCircular == "function validateSOD() { var r = { valid: true }; r.self = r; return r; }"
SrcOwnResult == "let result; function validateSOD(user, action, context) { result = { valid: true }; return result; }"
SrcStash == "Object.getPrototypeOf(user).stash = user; function validateSOD() { return { valid: true }; }"
SrcPeek == "function validateSOD(user) { return { valid: true, leaked: user.stash }; }"

Sources ==
  {SrcValid, SrcInvalid, SrcLimit, SrcThrowX, SrcThrowString,
   SrcThrowNull, SrcNoDefine, SrcNotCallable, SrcSyntax, SrcInject,
   SrcBodyLoop, SrcFnLoop, SrcNoReturn, SrcToJSONLoop,
   SrcCircular, SrcOwnResult, SrcStash, SrcPeek}

\* What a source text does:
\*   script  the text alone is a valid script
\*   top     what its top-level statements do
\*   decl    what the name validateSOD is bound to once they ran
\*   fn      what a call of validateSOD does
Prog(script, top, decl, fn) ==
  [script |-> script, top |-> top, decl |-> decl, fn |-> fn]

Program(src) ==
  CASE src = SrcValid -> Prog(TRUE, "none", "function", "valid")
    [] src = SrcInvalid -> Prog(TRUE, "none", "function", "invalid")
    [] src = SrcLimit -> Prog(TRUE, "none", "function", "limit")
    [] src = SrcThrowX -> Prog(TRUE, "none", "function", "throwErrorX")
    [] src = SrcThrowString -> Prog(TRUE, "none", "function", "throwString")
    [] src = SrcThrowNull -> Prog(TRUE, "none", "function", "throwNull")
    [] src = SrcNoDefine -> Prog(TRUE, "none", "none", "none")
    [] src = SrcNotCallable -> Prog(TRUE, "none", "number", "none")
    [] src = SrcSyntax -> Prog(FALSE, "none", "none", "none")
    [] src = SrcInject -> Prog(FALSE, "closeTry", "none", "none")
    [] src = SrcBodyLoop -> Prog(TRUE, "loop", "none", "none")
    [] src = SrcFnLoop -> Prog(TRUE, "none", "function", "loop")
    [] src = SrcNoReturn -> Prog(TRUE, "none", "function", "noReturn")
    [] src = SrcToJSONLoop -> Prog(TRUE, "none", "function", "toJSONLoop")
    [] src = SrcCircular -> Prog(TRUE, "none", "function", "circular")
    [] src = SrcOwnResult -> Prog(TRUE, "letResult", "function", "valid")
    [] src = SrcStash -> Prog(TRUE, "stash", "function", "valid")
    [] src = SrcPeek -> Prog(TRUE, "none", "function", "peek")

\* the handler embeds the text in  try { CODE result = validateSOD(user,
\* action, context); } catch (error) { result = {valid:false, reason:
\* error.message}; }  and compiles that.  A text that closes the try block and
\* opens another one compiles there although it is no script by itself.
WrapperCompiles(src) ==
  \/ Program(src).script
  \/ Program(src).top = "closeTry"

SyntaxErrorMessage == "Unexpected token '{'"

\* action.amount > user.approvalLimit
OverLimit(user, action) ==
  LET amount == GetProp(action, "amount")
      limit == GetProp(user, "approvalLimit")
  IN /\ amount.t = "number"
     /\ limit.t = "number"
     /\ amount.n > limit.n

\* the object host Object.prototype.stash refers to (0: the property is unset)
StashValue(proto) ==
  IF proto = 0 THEN Undefined ELSE req[proto].testUser

\* validateSOD(user, action, context): [k |-> "return", v |-> value],
\* [k |-> "throw", v |-> thrown value] or [k |-> "loop"]
Return(v) == [k |-> "return", v |-> v]
Throw(v) == [k |-> "throw", v |-> v]
Loop == [k |-> "loop"]

CallValidateSOD(src, user, action, context, proto) ==
  LET prog == Program(src) IN
  CASE prog.decl = "none" ->
         Throw(Err("vm", "ReferenceError", Str("validateSOD is not defined")))
    [] prog.decl = "number" ->
         Throw(Err("vm", "TypeError", Str("validateSOD is not a function")))
    [] prog.fn = "valid" -> Return(Obj([valid |-> Bool(TRUE)]))
    [] prog.fn = "invalid" ->
         Return(Obj([valid |-> Bool(FALSE), reason |-> Str("R")]))
    [] prog.fn = "limit" ->
         IF OverLimit(user, action)
         THEN Return(Obj([valid |-> Bool(FALSE), reason |-> Str("over limit")]))
         ELSE Return(Obj([valid |-> Bool(TRUE)]))
    [] prog.fn = "throwErrorX" -> Throw(Err("vm", "Error", Str("X")))
    [] prog.fn = "throwString" -> Throw(Str("X"))
    [] prog.fn = "throwNull" -> Throw(Null)
    [] prog.fn = "loop" -> Loop
    [] prog.fn = "noReturn" -> Return(Undefined)
    [] prog.fn = "toJSONLoop" ->
         Return(Obj([valid |-> Bool(TRUE), toJSON |-> Fun("loop")]))
    [] prog.fn = "circular" ->
         Return(Obj([valid |-> Bool(TRUE), self |-> Cycle]))
    [] prog.fn = "peek" ->
         Return(Obj([valid |-> Bool(TRUE), leaked |-> StashValue(proto)]))

\* a catch block that reports a fixed text instead of error.message
CatchBlockFixedReason(e) ==
  [k |-> "return",
   v |-> Obj([valid |-> Bool(FALSE), reason |-> Str("Code execution failed")])]

\* the wrapper's catch block:  result = { valid: false, reason: error.message }
\* reading .message of null or undefined throws a TypeError of the vm realm
CatchBlock(e) ==
  IF e.t \in {"null", "undefined"}
  THEN Throw(Err("vm", "TypeError",
                 Str("Cannot read properties of null (reading 'message')")))
  ELSE Return(Obj([valid |-> Bool(FALSE), reason |-> GetProp(e, "message")]))

\* does the run of the wrapped script end by itself
ScriptLoops(src) ==
  \/ Program(src).top = "loop"
  \/ /\ Program(src).decl = "function"
     /\ Program(src).fn = "loop"

\* the text is pasted inside the wrapper's try block: a  let result  of the
\* text is a variable of that block, and  result = validateSOD(...)  in the
\* same block assigns it instead of the sandbox's slot
AssignsSlot(src) == Program(src).top # "letResult"

\* the run of the wrapped script in the context made of sandbox sb:
\*   end     "returned": validateSOD returned and result was assigned
\*           "caught":   the wrapper's catch block assigned result
\*           "escaped":  the catch block itself threw, exc leaves the script
\*   result  the value left in the sandbox's result slot
RunScript(src, sb, proto) ==
  LET call == CallValidateSOD(src, sb.user, sb.action, sb.context, proto)
      handled == CatchBlock(call.v)
  IN IF call.k = "return"
     THEN [end |-> "returned",
           result |-> IF AssignsSlot(src) THEN call.v ELSE sb.result,
           exc |-> NoValue]
     ELSE IF handled.k = "return"
          THEN [end |-> "caught", result |-> handled.v, exc |-> NoValue]
          ELSE [end |-> "escaped", result |-> sb.result, exc |-> handled.v]

\* ------------------------------------------------------------- the requests
UserOf(i) == Obj([id |-> Num(i), approvalLimit |-> Num(100)])
ActionOf(i) == Obj([type |-> Str("approve"), amount |-> Num(150), requestedBy |-> Num(i)])
ContextOf(i) == Obj([tenant |-> Num(i)])

Body(c, user, action, context) ==
  [code |-> c, testUser |-> user, testAction |-> action, testContext |-> context]

Falsy == {Undefined, Null, Bool(FALSE), Num(0), Str("")}

\* the bodies a client sends as request i
Bodies(i) ==
  {Body(Str(src), UserOf(i), ActionOf(i), Undefined) : src \in Sources}
  \cup {Body(Str(SrcLimit), UserOf(i), ActionOf(i), c) : c \in {ContextOf(i), Num(0)}}
  \cup {Body(c, UserOf(i), ActionOf(i), Undefined) : c \in {Undefined, Str("")}}
  \cup {Body(Str(SrcLimit), u, ActionOf(i), Undefined) : u \in Falsy \cup {EmptyObj}}
  \cup {Body(Str(SrcLimit), UserOf(i), a, Undefined) : a \in Falsy \cup {EmptyObj}}

\* ------------------------------------------------------ the workflow store
\* nodes of a workflow's React Flow data; a node of type sod-policy carries
\* the text of its policy in data.sodPolicy
StartNode ==
  Obj([id |-> Str("start-1"),
       type |-> Str("custom"),
       data |-> Obj([label |-> Str("Start Process"), nodeType |-> Str("start")])])

PolicyNode(text) ==
  Obj([id |-> Str("sod-policy-1"),
       type |-> Str("custom"),
       data |-> Obj([label |-> Str("SOD Policy"),
                     nodeType |-> Str("sod-policy"),
                     sodPolicy |-> Str(text)])])

WorkflowData(ns) == Obj([nodes |-> Arr(ns), edges |-> Arr(<<>>)])

\* the workflow initializeSampleData stores under id 1
SampleWorkflow ==
  [id |-> 1,
   name |-> Str("Customer Onboarding Process"),
   description |-> Str("Complete customer registration and verification workflow"),
   data |-> WorkflowData(<<StartNode>>),
   createdAt |-> 0,
   updatedAt |-> 0]

\* new MemStorage(): empty maps, counters at 1, then the sample workflow
\* takes id 1
StorageInit ==
  /\ users = [k \in {} |-> NoValue]
  /\ workflows = [k \in {1} |-> SampleWorkflow]
  /\ jobs = [k \in {} |-> NoValue]
  /\ currentUserId = 1
  /\ currentWorkflowId = 2
  /\ currentJobId = 1

\* insertWorkflowSchema.parse(body) succeeds: name is a string, description a
\* string or null if present, data present and not null; with .partial()
\* every field may be absent.  A body is the function from the keys the
\* schema keeps to their values.
ValidWorkflow(b, partial) ==
  /\ IF "name" \in DOMAIN b THEN b["name"].t = "string" ELSE partial
  /\ "description" \in DOMAIN b => b["description"].t \in {"string", "null"}
  /\ IF "data" \in DOMAIN b THEN b["data"].t \notin {"null", "undefined"} ELSE partial

\* the bodies clients send to POST /api/workflows and PUT /api/workflows/:id
PostBodies ==
  {[name |-> Str("Approval"),
    data |-> WorkflowData(<<StartNode, PolicyNode(SrcBodyLoop)>>)],
   [data |-> WorkflowData(<<StartNode>>)]}

PutBodies ==
  {[data |-> WorkflowData(<<StartNode, PolicyNode(SrcSyntax)>>)],
   [name |-> Num(1)]}

\* ------------------------------------------------------------ the browser
\* useState(null) of the SOD policy editor; no request was sent.
\* WorkflowEditor starts with no nodes, no edges, no workflow and nothing
\* unsaved; the SOD policy editor is not mounted.
ClientInit ==
  /\ testResult = Null
  /\ settled = NoValue
  /\ nodes = <<>>
  /\ edges = <<>>
  /\ selectedNode = Null
  /\ showSODEditor = FALSE
  /\ code = NoValue
  /\ isUnsaved = FALSE
  /\ currentWorkflow = Null
  /\ saving = NoValue

\* ------------------------------------------------------------- the handler
Response(status, body) == [status |-> status, body |-> body]

Init ==
  /\ req = [i \in Ids |-> NoValue]
  /\ pc = [i \in Ids |-> "None"]
  /\ hist = [i \in Ids |-> <<>>]
  /\ sandbox = [i \in Ids |-> NoValue]
  /\ thrown = [i \in Ids |-> NoValue]
  /\ elapsed = [i \in Ids |-> 0]
  /\ resp = [i \in Ids |-> <<>>]
  /\ cur = 0
  /\ unwatched = 0
  /\ hostProto = 0
  /\ seen = [i \in Ids |-> {}]
  /\ compiles = [i \in Ids |-> 0]
  /\ contexts = [i \in Ids |-> 0]
  /\ runs = [i \in Ids |-> 0]
  /\ StorageInit
  /\ now = 0
  /\ out = NoValue
  /\ ClientInit

\* the evaluator's state of invocation i becomes s
Enter(i, s) ==
  /\ pc' = [pc EXCEPT ![i] = s]
  /\ hist' = [hist EXCEPT ![i] = Append(@, s)]

\* a client sends request i; requests are numbered as they arrive.  The
\* request waits for the thread; the server reads its body when the handler
\* starts
Arrive(i) ==
  /\ pc[i] = "None"
  /\ \A j \in Ids : j < i => pc[j] # "None"
  /\ Enter(i, "Idle")
  /\ UNCHANGED <<req, sandbox, thrown, elapsed, resp, cur, unwatched,
                 hostProto, seen, compiles, contexts, runs>>
  /\ UNCHANGED <<storage, now, out>>
  /\ UNCHANGED client

\* a validation that forgets testAction
MissingFieldsNoAction(b) ==
  \/ ~Truthy(b.code)
  \/ ~Truthy(b.testUser)

\* a validation that looks for absent fields only
MissingFieldsAbsentOnly(b) ==
  \/ b.code = Undefined
  \/ b.testUser = Undefined
  \/ b.testAction = Undefined

\* if (!code || !testUser || !testAction)
MissingFields(b) ==
  \/ ~Truthy(b.code)
  \/ ~Truthy(b.testUser)
  \/ ~Truthy(b.testAction)

\* a sandbox that binds the two fixtures the wrong way round
NewSandboxSwapped(b) ==
  [user |-> b.testAction,
   action |-> b.testUser,
   context |-> IF Truthy(b.testContext) THEN b.testContext ELSE EmptyObj,
   result |-> Null]

\* const sandbox = { user, action, context: testContext || {}, result: null }
NewSandbox(b) ==
  [user |-> b.testUser,
   action |-> b.testAction,
   context |-> IF Truthy(b.testContext) THEN b.testContext ELSE EmptyObj,
   result |-> Null]

\* a handler that keeps the tested text in the sample workflow
HandleStoringPolicy(i, b) ==
  /\ cur = 0
  /\ pc[i] = "Idle"
  /\ req' = [req EXCEPT ![i] = b]
  /\ IF MissingFields(b)
     THEN /\ resp' = [resp EXCEPT ![i] = Append(@,
                 Response(400, Obj([message |-> Str("Missing required fields")])))]
          /\ Enter(i, "Rejected")
          /\ UNCHANGED <<sandbox, cur, workflows>>
     ELSE /\ sandbox' = [sandbox EXCEPT ![i] = NewSandbox(b)]
          /\ Enter(i, "Compiling")
          /\ cur' = i
          /\ workflows' = [k \in DOMAIN workflows |->
                              [workflows[k] EXCEPT
                                 !.data = WorkflowData(<<PolicyNode(b.code.s)>>)]]
          /\ UNCHANGED resp
  /\ UNCHANGED <<thrown, elapsed, unwatched, hostProto, seen, compiles,
                 contexts, runs>>
  /\ UNCHANGED <<users, jobs, currentUserId, currentWorkflowId, currentJobId,
                 now, out>>
  /\ UNCHANGED client

\* the handler starts on the free thread with the body b of the request:
\* it either answers 400 or builds the sandbox and goes on to compile
Handle(i, b) ==
  /\ cur = 0
  /\ pc[i] = "Idle"
  /\ req' = [req EXCEPT ![i] = b]
  /\ IF MissingFields(b)
     THEN /\ resp' = [resp EXCEPT ![i] = Append(@,
                 Response(400, Obj([message |-> Str("Missing required fields")])))]
          /\ Enter(i, "Rejected")
          /\ UNCHANGED <<sandbox, cur>>
     ELSE /\ sandbox' = [sandbox EXCEPT ![i] = NewSandbox(b)]
          /\ Enter(i, "Compiling")
          /\ cur' = i
          /\ UNCHANGED resp
  /\ UNCHANGED <<thrown, elapsed, unwatched, hostProto, seen, compiles,
                 contexts, runs>>
  /\ UNCHANGED <<storage, now, out>>
  /\ UNCHANGED client

Validate(i) == \E b \in Bodies(i) : Handle(i, b)

\* a handler that compiles the text again after a compile failure
CompileWithRetry(i) ==
  /\ cur = i
  /\ pc[i] \in {"Compiling", "CompileFailed"}
  /\ resp[i] = <<>>
  /\ compiles' = [compiles EXCEPT ![i] = @ + 1]
  /\ IF WrapperCompiles(req[i].code.s)
     THEN /\ contexts' = [contexts EXCEPT ![i] = @ + 1]
          /\ runs' = [runs EXCEPT ![i] = @ + 1]
          /\ Enter(i, "Running")
          /\ UNCHANGED thrown
     ELSE /\ thrown' = [thrown EXCEPT ![i] =
                 Err("host", "SyntaxError", Str(SyntaxErrorMessage))]
          /\ Enter(i, "CompileFailed")
          /\ UNCHANGED <<contexts, runs>>
  /\ UNCHANGED <<req, sandbox, elapsed, resp, cur, unwatched, hostProto, seen>>
  /\ UNCHANGED <<storage, now, out>>
  /\ UNCHANGED client

\* new vm.Script(wrapper); on success vm.createContext(sandbox) and the run
\* starts under the watchdog
Compile(i) ==
  /\ cur = i
  /\ pc[i] = "Compiling"
  /\ compiles' = [compiles EXCEPT ![i] = @ + 1]
  /\ IF WrapperCompiles(req[i].code.s)
     THEN /\ contexts' = [contexts EXCEPT ![i] = @ + 1]
          /\ runs' = [runs EXCEPT ![i] = @ + 1]
          /\ Enter(i, "Running")
          /\ UNCHANGED thrown
     ELSE /\ thrown' = [thrown EXCEPT ![i] =
                 Err("host", "SyntaxError", Str(SyntaxErrorMessage))]
          /\ Enter(i, "CompileFailed")
          /\ UNCHANGED <<contexts, runs>>
  /\ UNCHANGED <<req, sandbox, elapsed, resp, cur, unwatched, hostProto, seen>>
  /\ UNCHANGED <<storage, now, out>>
  /\ UNCHANGED client

\* the top-level statements of the text, as far as they touch the host realm
StashAfter(i) ==
  IF Program(req[i].code.s).top = "stash" THEN i ELSE hostProto

\* the invocations whose bindings the script of i reads
SeenAfter(i) ==
  IF /\ Program(req[i].code.s).fn = "peek"
     /\ hostProto # 0
  THEN seen[i] \cup {hostProto}
  ELSE seen[i]

\* script.runInContext(context, {timeout: 5000}) for a script that ends
Run(i) ==
  /\ cur = i
  /\ pc[i] = "Running"
  /\ ~ScriptLoops(req[i].code.s)
  /\ LET ran == RunScript(req[i].code.s, sandbox[i], hostProto) IN
       /\ sandbox' = [sandbox EXCEPT ![i].result = ran.result]
       /\ thrown' = [thrown EXCEPT ![i] = ran.exc]
       /\ Enter(i, IF ran.end = "returned" THEN "Succeeded" ELSE "Threw")
  /\ hostProto' = StashAfter(i)
  /\ seen' = [seen EXCEPT ![i] = SeenAfter(i)]
  /\ UNCHANGED <<req, elapsed, resp, cur, unwatched, compiles, contexts, runs>>
  /\ UNCHANGED <<storage, now, out>>
  /\ UNCHANGED client

\* a script that does not end keeps the thread while the watchdog's clock runs
Tick(i) ==
  /\ cur = i
  /\ pc[i] = "Running"
  /\ ScriptLoops(req[i].code.s)
  /\ elapsed[i] < TimeoutMs
  /\ elapsed' = [elapsed EXCEPT ![i] = @ + TickMs]
  /\ UNCHANGED <<req, pc, hist, sandbox, thrown, resp, cur, unwatched,
                 hostProto, seen, compiles, contexts, runs>>
  /\ UNCHANGED <<storage, now, out>>
  /\ UNCHANGED client

TimeoutMessage == "Script execution timed out after 5000ms"

\* the watchdog ends the run: runInContext throws the timeout error
Abort(i) ==
  /\ cur = i
  /\ pc[i] = "Running"
  /\ ScriptLoops(req[i].code.s)
  /\ elapsed[i] >= TimeoutMs
  /\ thrown' = [thrown EXCEPT ![i] = Err("host", "Error", Str(TimeoutMessage))]
  /\ Enter(i, "TimedOut")
  /\ UNCHANGED <<req, sandbox, elapsed, resp, cur, unwatched, hostProto, seen,
                 compiles, contexts, runs>>
  /\ UNCHANGED <<storage, now, out>>
  /\ UNCHANGED client

\* res.json({ success: true, result: sandbox.result }): JSON.stringify runs on
\* the host thread, outside the watchdog
SuccessBody(result) == Obj([success |-> Bool(TRUE), result |-> result])

Respond(i) ==
  /\ cur = i
  /\ unwatched = 0
  /\ pc[i] \in {"Succeeded", "Threw"}
  /\ thrown[i] = NoValue
  /\ resp[i] = <<>>
  /\ LET body == SuccessBody(sandbox[i].result) IN
       CASE StringifyHangs(body) ->
              /\ unwatched' = i
              /\ UNCHANGED <<thrown, resp, cur>>
         [] ~StringifyHangs(body) /\ StringifyThrows(body) ->
              /\ thrown' = [thrown EXCEPT ![i] =
                     Err("host", "TypeError", Str(CircularMessage))]
              /\ UNCHANGED <<resp, cur, unwatched>>
         [] OTHER ->
              /\ resp' = [resp EXCEPT ![i] = Append(@, Response(200, Json(body)))]
              /\ cur' = 0
              /\ UNCHANGED <<thrown, unwatched>>
  /\ UNCHANGED <<req, pc, hist, sandbox, elapsed, hostProto, seen, compiles,
                 contexts, runs>>
  /\ UNCHANGED <<storage, now, out>>
  /\ UNCHANGED client

\* a catch that always reports the fixed text
ErrorTextFixed(e) == Str("Code execution failed")

\* error instanceof Error ? error.message : "Code execution failed"
ErrorText(e) ==
  IF e.t = "error" /\ e.realm = "host"
  THEN e.message
  ELSE Str("Code execution failed")

FailureBody(e) == Obj([success |-> Bool(FALSE), error |-> ErrorText(e)])

\* a catch that answers and then keeps the handler, and with it the sandbox
\* and the context, alive
CatchHolding(i) ==
  /\ cur = i
  /\ thrown[i] # NoValue
  /\ resp[i] = <<>>
  /\ resp' = [resp EXCEPT ![i] = Append(@, Response(500, Json(FailureBody(thrown[i]))))]
  /\ UNCHANGED <<req, pc, hist, sandbox, thrown, elapsed, cur, unwatched, hostProto,
                 seen, compiles, contexts, runs>>
  /\ UNCHANGED <<storage, now, out>>
  /\ UNCHANGED client

\* catch (error) { res.status(500).json({ success: false, error: ... }) }
Catch(i) ==
  /\ cur = i
  /\ thrown[i] # NoValue
  /\ resp[i] = <<>>
  /\ resp' = [resp EXCEPT ![i] = Append(@, Response(500, Json(FailureBody(thrown[i]))))]
  /\ cur' = 0
  /\ UNCHANGED <<req, pc, hist, sandbox, thrown, elapsed, unwatched, hostProto,
                 seen, compiles, contexts, runs>>
  /\ UNCHANGED <<storage, now, out>>
  /\ UNCHANGED client

\* a step of the handler of some invocation
HostStep ==
  \E i \in Ids :
    \/ Validate(i)
    \/ Compile(i)
    \/ Run(i)
    \/ Tick(i)
    \/ Abort(i)
    \/ Respond(i)
    \/ Catch(i)

Next ==
  \/ \E i \in Ids : Arrive(i)
  \/ \E i \in Ids : Validate(i)
  \/ \E i \in Ids : Compile(i)
  \/ \E i \in Ids : Run(i)
  \/ \E i \in Ids : Tick(i)
  \/ \E i \in Ids : Abort(i)
  \/ \E i \in Ids : Respond(i)
  \/ \E i \in Ids : Catch(i)

Spec == Init /\ [][Next]_vars

\* ------------------------------------------------------ the workflow routes
\* the variables of the policy test endpoint
evaluator ==
  <<req, pc, hist, sandbox, thrown, elapsed, resp, cur, unwatched,
    hostProto, seen, compiles, contexts, runs>>

\* { ...workflow, id, description: workflow.description || null,
\*   createdAt: now, updatedAt: now }
NewWorkflow(w, id, t) ==
  [id |-> id,
   name |-> w["name"],
   description |-> IF "description" \in DOMAIN w /\ Truthy(w["description"])
                   THEN w["description"]
                   ELSE Null,
   data |-> w["data"],
   createdAt |-> t,
   updatedAt |-> t]

\* a store that gives a new workflow the smallest id that is free
createWorkflowReusing(w) ==
  LET id == CHOOSE k \in 1..currentWorkflowId :
              k \notin DOMAIN workflows /\ \A j \in 1..(k - 1) : j \in DOMAIN workflows
  IN /\ workflows' = [k \in DOMAIN workflows \cup {id} |->
                        IF k = id THEN NewWorkflow(w, id, now) ELSE workflows[k]]
     /\ currentWorkflowId' = IF id = currentWorkflowId THEN id + 1 ELSE currentWorkflowId

\* MemStorage.createWorkflow
createWorkflow(w) ==
  /\ workflows' = [k \in DOMAIN workflows \cup {currentWorkflowId} |->
                     IF k = currentWorkflowId
                     THEN NewWorkflow(w, currentWorkflowId, now)
                     ELSE workflows[k]]
  /\ currentWorkflowId' = currentWorkflowId + 1

\* an update that stamps both dates
UpdatedWorkflowRestamped(existing, w, t) ==
  [k \in DOMAIN existing \cup DOMAIN w |->
     IF k \in {"createdAt", "updatedAt"} THEN t
     ELSE IF k \in DOMAIN w THEN w[k]
     ELSE existing[k]]

\* { ...existing, ...workflow, updatedAt: new Date() }
UpdatedWorkflow(existing, w, t) ==
  [k \in DOMAIN existing \cup DOMAIN w |->
     IF k = "updatedAt" THEN t
     ELSE IF k \in DOMAIN w THEN w[k]
     ELSE existing[k]]

\* MemStorage.updateWorkflow for an id that is stored
updateWorkflow(id, w) ==
  /\ workflows' = [workflows EXCEPT ![id] = UpdatedWorkflow(workflows[id], w, now)]
  /\ UNCHANGED currentWorkflowId

\* MemStorage.deleteWorkflow for an id that is stored: Map.delete
deleteWorkflow(id) ==
  /\ workflows' = [k \in DOMAIN workflows \ {id} |-> workflows[k]]
  /\ UNCHANGED currentWorkflowId

\* the keys insertWorkflowSchema keeps: the table's columns without id,
\* createdAt and updatedAt
InsertWorkflowKeys == {"name", "description", "data"}

\* what insertWorkflowSchema.parse returns for a body that passes: a zod
\* object strips the keys the schema does not know
Stripped(b) == [k \in DOMAIN b \cap InsertWorkflowKeys |-> b[k]]

InvalidWorkflowData == Response(400, Obj([message |-> Str("Invalid workflow data")]))
WorkflowNotFound == Response(404, Obj([message |-> Str("Workflow not found")]))

\* a save that also compiles the policy texts of the workflow it stores
PostWorkflowCompiling(b) ==
  /\ cur = 0
  /\ ValidWorkflow(b, FALSE)
  /\ currentWorkflowId <= MaxWorkflowId
  /\ createWorkflow(b)
  /\ out' = Response(201, NewWorkflow(b, currentWorkflowId, now))
  /\ compiles' = [compiles EXCEPT ![1] = @ + 1]
  /\ UNCHANGED <<req, pc, hist, sandbox, thrown, elapsed, resp, cur, unwatched,
                 hostProto, seen, contexts, runs>>
  /\ UNCHANGED <<users, jobs, currentUserId, currentJobId, now>>
  /\ UNCHANGED client

\* app.post("/api/workflows"): 201 with the stored workflow, or 400 when the
\* body does not pass the schema (the list of issues in the 400 body is left
\* out)
PostWorkflow(b) ==
  /\ cur = 0
  /\ IF ValidWorkflow(b, FALSE)
     THEN /\ currentWorkflowId <= MaxWorkflowId
          /\ createWorkflow(Stripped(b))
          /\ out' = Response(201, NewWorkflow(Stripped(b), currentWorkflowId, now))
     ELSE /\ out' = InvalidWorkflowData
          /\ UNCHANGED <<workflows, currentWorkflowId>>
  /\ UNCHANGED <<evaluator, users, jobs, currentUserId, currentJobId, now>>
  /\ UNCHANGED client

\* a PUT that stores the body under an id that is not in the store
PutWorkflowUpserting(id, b) ==
  /\ cur = 0
  /\ IF ~ValidWorkflow(b, TRUE)
     THEN /\ out' = InvalidWorkflowData
          /\ UNCHANGED <<workflows, currentWorkflowId>>
     ELSE IF id \notin DOMAIN workflows
     THEN /\ workflows' = [k \in DOMAIN workflows \cup {id} |->
                             IF k = id
                             THEN UpdatedWorkflow([id |-> id, createdAt |-> now], Stripped(b), now)
                             ELSE workflows[k]]
          /\ out' = Response(200, UpdatedWorkflow([id |-> id, createdAt |-> now], Stripped(b), now))
          /\ UNCHANGED currentWorkflowId
     ELSE /\ updateWorkflow(id, Stripped(b))
          /\ out' = Response(200, UpdatedWorkflow(workflows[id], Stripped(b), now))
  /\ UNCHANGED <<evaluator, users, jobs, currentUserId, currentJobId, now>>
  /\ UNCHANGED client

\* app.put("/api/workflows/:id"): 400 for a body that does not pass the
\* partial schema, 404 for an id that is not stored, else 200 with the
\* updated workflow
PutWorkflow(id, b) ==
  /\ cur = 0
  /\ IF ~ValidWorkflow(b, TRUE)
     THEN /\ out' = InvalidWorkflowData
          /\ UNCHANGED <<workflows, currentWorkflowId>>
     ELSE IF id \notin DOMAIN workflows
     THEN /\ out' = WorkflowNotFound
          /\ UNCHANGED <<workflows, currentWorkflowId>>
     ELSE /\ updateWorkflow(id, Stripped(b))
          /\ out' = Response(200, UpdatedWorkflow(workflows[id], Stripped(b), now))
  /\ UNCHANGED <<evaluator, users, jobs, currentUserId, currentJobId, now>>
  /\ UNCHANGED client

\* app.get("/api/workflows/:id"): the stored workflow, or 404
GetWorkflow(id) ==
  /\ cur = 0
  /\ out' = IF id \in DOMAIN workflows
            THEN Response(200, workflows[id])
            ELSE WorkflowNotFound
  /\ UNCHANGED <<evaluator, storage, now>>
  /\ UNCHANGED client

WorkflowDeleted == Response(200, Obj([message |-> Str("Workflow deleted successfully")]))

\* app.delete("/api/workflows/:id"): 404 when Map.delete found nothing
DeleteWorkflow(id) ==
  /\ cur = 0
  /\ IF id \in DOMAIN workflows
     THEN /\ deleteWorkflow(id)
          /\ out' = WorkflowDeleted
     ELSE /\ out' = WorkflowNotFound
          /\ UNCHANGED <<workflows, currentWorkflowId>>
  /\ UNCHANGED <<evaluator, users, jobs, currentUserId, currentJobId, now>>
  /\ UNCHANGED client

\* the host's clock goes on
TimePasses ==
  /\ now < MaxTime
  /\ now' = now + 1
  /\ UNCHANGED <<evaluator, storage, out>>
  /\ UNCHANGED client

\* the server with its workflow routes and one policy test
ServerNext ==
  \/ Arrive(1)
  \/ Validate(1)
  \/ Compile(1)
  \/ Run(1)
  \/ Tick(1)
  \/ Abort(1)
  \/ Respond(1)
  \/ Catch(1)
  \/ \E b \in PostBodies : PostWorkflow(b)
  \/ \E id \in 1..MaxWorkflowId : \E b \in PutBodies : PutWorkflow(id, b)
  \/ TimePasses

ServerSpec == Init /\ [][ServerNext]_vars

\* the bodies clients send to the workflow routes when no policy test runs;
\* a body may carry keys the schema does not know
StorePostBodies ==
  {[name |-> Str("Approval"), data |-> WorkflowData(<<StartNode>>), id |-> Num(1)],
   [data |-> WorkflowData(<<StartNode>>)]}

StorePutBodies ==
  {[name |-> Str("Renamed"), id |-> Num(7), createdAt |-> Num(5)],
   [description |-> Null],
   [name |-> Num(1)]}

\* the ids clients ask for: the ones the store can hold and one beyond
RequestIds == 1..(MaxWorkflowId + 1)

\* the workflow routes alone
StoreNext ==
  \/ \E b \in StorePostBodies : PostWorkflow(b)
  \/ \E id \in RequestIds : \E b \in StorePutBodies : PutWorkflow(id, b)
  \/ \E id \in RequestIds : GetWorkflow(id)
  \/ \E id \in RequestIds : DeleteWorkflow(id)
  \/ TimePasses

StoreSpec == Init /\ [][StoreNext]_vars

\* ------------------------------------------------- the SOD policy editor
\* the variables of the server
server == <<evaluator, storage, now, out>>

\* how the mutation function (apiRequest, then response.json()) ended
Resolved(v) == [k |-> "resolved", v |-> v]
Rejected == [k |-> "rejected"]

\* onSuccess: (result) => setTestResult(result).  The mutation function
\* resolved with the parsed body of the answer to the test request.
\* (apiRequest is not part of the sources: for an answer that is not 2xx it
\* may resolve or reject, and both are possible here.)
onSuccess ==
  /\ settled = NoValue
  /\ resp[1] # <<>>
  /\ settled' = Resolved(resp[1][1].body)
  /\ testResult' = resp[1][1].body
  /\ UNCHANGED server
  /\ UNCHANGED editor

\* onError: toast, then setTestResult({ success: false, error: "Execution
\* failed" }).  The request was sent and the mutation function rejected.
onError ==
  /\ settled = NoValue
  /\ pc[1] # "None"
  /\ settled' = Rejected
  /\ testResult' = Obj([success |-> Bool(FALSE), error |-> Str("Execution failed")])
  /\ UNCHANGED server
  /\ UNCHANGED editor

\* a panel that looks at result.valid only
LabelIgnoringSuccess(r) ==
  IF ~Truthy(r) THEN "none"
  ELSE IF Truthy(GetProp(GetProp(r, "result"), "valid")) THEN "Valid" ELSE "Invalid"

\* the label the panel renders for testResult:
\*   testResult && (testResult.success
\*     ? (testResult.result?.valid ? "Valid" : "Invalid") : "Error")
Label(r) ==
  IF ~Truthy(r) THEN "none"
  ELSE IF Truthy(GetProp(r, "success"))
       THEN IF Truthy(GetProp(GetProp(r, "result"), "valid")) THEN "Valid" ELSE "Invalid"
       ELSE "Error"

\* the editor's test panel with the server's handler for its request
PanelNext ==
  \/ Arrive(1)
  \/ Validate(1)
  \/ Compile(1)
  \/ Run(1)
  \/ Tick(1)
  \/ Abort(1)
  \/ Respond(1)
  \/ Catch(1)
  \/ onSuccess
  \/ onError

PanelSpec == Init /\ [][PanelNext]_vars

\* ---------------------------------------------------- the workflow editor
\* { ...o, [name]: v }
With(o, name, v) ==
  Obj([k \in DOMAIN o.p \cup {name} |-> IF k = name THEN v ELSE o.p[k]])

\* the first line of the policy text the SOD policy editor starts with
defaultSODPolicy == "// SOD Policy Validation Function"

getNodeLabel(nodeType) ==
  CASE nodeType = "start" -> "Start Process"
    [] nodeType = "process" -> "Process Step"
    [] nodeType = "sod-policy" -> "SOD Policy"
    [] nodeType = "end" -> "End Process"
    [] OTHER -> "Unknown Node"

\* the handler WorkflowEditor passes down as onEditSODPolicy
EditHandler == Fun("handleEditSODPolicy")

\* the node types dragged from the palette ("": the drag carries no type),
\* the point of the drop, the text typed into the policy editor, the name
\* given to a saved workflow
PaletteTypes == {"", "start", "sod-policy"}
DropPoints == {[clientX |-> 300, clientY |-> 200]}
PolicyDrafts == {SrcLimit}
WorkflowNames == {"Approval"}

\* the canvas's copy of the editor's nodes: the effect that syncs it adds
\* onEditSODPolicy to the data of every node
reactFlowNodes(ns) ==
  [k \in DOMAIN ns |->
     With(ns[k], "data", With(GetProp(ns[k], "data"), "onEditSODPolicy", EditHandler))]

\* `${nodeType}-${Date.now()}`
NodeId(nodeType, t) == Str(nodeType \o "-" \o ToString(t))

\* WorkflowCanvas.onDrop: the new node goes to the end of the canvas's list,
\* and handleNodesChange of WorkflowEditor takes the list and sets isUnsaved
onDrop(nodeType, at) ==
  /\ ~showSODEditor
  /\ Len(nodes) < MaxNodes
  /\ IF nodeType = ""
     THEN UNCHANGED <<nodes, isUnsaved>>
     ELSE LET newNode ==
                Obj([id |-> NodeId(nodeType, now),
                     type |-> Str("custom"),
                     position |-> Obj([x |-> Num(at.clientX - 200),
                                       y |-> Num(at.clientY - 100)]),
                     data |-> Obj([label |-> Str(getNodeLabel(nodeType)),
                                   nodeType |-> Str(nodeType),
                                   onEditSODPolicy |-> EditHandler])])
          IN /\ nodes' = Append(reactFlowNodes(nodes), newNode)
             /\ isUnsaved' = TRUE
  /\ UNCHANGED <<edges, selectedNode, showSODEditor, code, currentWorkflow, saving>>
  /\ UNCHANGED <<server, panel>>

\* WorkflowCanvas.onConnect from node s to node t: addEdge leaves out a
\* connection the list already has; handleEdgesChange of WorkflowEditor
\* takes the list and sets isUnsaved
onConnect(s, t) ==
  /\ ~showSODEditor
  /\ Len(edges) < MaxEdges
  /\ LET source == GetProp(nodes[s], "id")
         target == GetProp(nodes[t], "id")
         newEdge == Obj([source |-> source,
                         target |-> target,
                         id |-> Str(source.s \o "-" \o target.s),
                         type |-> Str("smoothstep")])
         exists == \E k \in DOMAIN edges :
                     /\ GetProp(edges[k], "source") = source
                     /\ GetProp(edges[k], "target") = target
     IN edges' = IF exists THEN edges ELSE Append(edges, newEdge)
  /\ isUnsaved' = TRUE
  /\ UNCHANGED <<nodes, selectedNode, showSODEditor, code, currentWorkflow, saving>>
  /\ UNCHANGED <<server, panel>>

\* onClick={() => data.onEditSODPolicy?.({ id, data })}
EditedNode(k) ==
  Obj([id |-> GetProp(reactFlowNodes(nodes)[k], "id"),
       data |-> GetProp(reactFlowNodes(nodes)[k], "data")])

\* the "Edit Policy" button of canvas node k (shown for a sod-policy node),
\* then handleEditSODPolicy; the SOD policy editor mounts with
\* useState(node.data.sodPolicy || defaultSODPolicy)
handleEditSODPolicy(k) ==
  /\ ~showSODEditor
  /\ GetProp(GetProp(nodes[k], "data"), "nodeType") = Str("sod-policy")
  /\ selectedNode' = EditedNode(k)
  /\ showSODEditor' = TRUE
  /\ code' = IF Truthy(GetProp(GetProp(nodes[k], "data"), "sodPolicy"))
             THEN GetProp(GetProp(nodes[k], "data"), "sodPolicy")
             ELSE Str(defaultSODPolicy)
  /\ UNCHANGED <<nodes, edges, isUnsaved, currentWorkflow, saving>>
  /\ UNCHANGED <<server, panel>>

\* onChange={(e) => setCode(e.target.value)}
setCode(text) ==
  /\ showSODEditor
  /\ code' = Str(text)
  /\ UNCHANGED <<nodes, edges, selectedNode, showSODEditor, isUnsaved,
                 currentWorkflow, saving>>
  /\ UNCHANGED <<server, panel>>

\* { ...node, data: { ...node.data, sodPolicy: code } }
updatedNode == With(selectedNode, "data", With(GetProp(selectedNode, "data"), "sodPolicy", code))

\* handleSave of the SOD policy editor, with the onSave WorkflowEditor gave it:
\*   setNodes(prev => prev.map(n => n.id === updatedNode.id ? updatedNode : n))
\*   setShowSODEditor(false); setIsUnsaved(true)
handleSave ==
  /\ showSODEditor
  /\ nodes' = [k \in DOMAIN nodes |->
                 IF GetProp(nodes[k], "id") = GetProp(updatedNode, "id")
                 THEN updatedNode
                 ELSE nodes[k]]
  /\ showSODEditor' = FALSE
  /\ isUnsaved' = TRUE
  /\ code' = NoValue
  /\ UNCHANGED <<edges, selectedNode, currentWorkflow, saving>>
  /\ UNCHANGED <<server, panel>>

\* onClose={() => setShowSODEditor(false)}
onClose ==
  /\ showSODEditor
  /\ showSODEditor' = FALSE
  /\ code' = NoValue
  /\ UNCHANGED <<nodes, edges, selectedNode, isUnsaved, currentWorkflow, saving>>
  /\ UNCHANGED <<server, panel>>

\* { nodes, edges, viewport: { x: 0, y: 0, zoom: 1 } }
EditorData(ns, es) ==
  Obj([nodes |-> Arr(ns),
       edges |-> Arr(es),
       viewport |-> Obj([x |-> Num(0), y |-> Num(0), zoom |-> Num(1)])])

\* handleSaveWorkflow: the request goes out with the nodes and edges of this
\* moment, as JSON; it is a PUT when a workflow is current.  The Save button
\* is disabled while a save is in flight.
handleSaveWorkflow(name) ==
  /\ saving = NoValue
  /\ saving' = [put |-> currentWorkflow # Null,
                body |-> [name |-> Str(name),
                          data |-> Json(EditorData(nodes, edges))]]
  /\ UNCHANGED <<nodes, edges, selectedNode, showSODEditor, code, isUnsaved,
                 currentWorkflow>>
  /\ UNCHANGED <<server, panel>>

\* the workflow the server answers a save with: the one it stored
savedWorkflows ==
  IF saving.put
  THEN {UpdatedWorkflow(currentWorkflow, saving.body, now)}
  ELSE {NewWorkflow(saving.body, id, now) : id \in 2..MaxWorkflowId}

\* saveWorkflowMutation.onSuccess:
\*   setCurrentWorkflow(savedWorkflow); setIsUnsaved(false)
saveOnSuccess ==
  /\ saving # NoValue
  /\ \E savedWorkflow \in savedWorkflows : currentWorkflow' = savedWorkflow
  /\ isUnsaved' = FALSE
  /\ saving' = NoValue
  /\ UNCHANGED <<nodes, edges, selectedNode, showSODEditor, code>>
  /\ UNCHANGED <<server, panel>>

\* saveWorkflowMutation.onError: a toast, no state changes
saveOnError ==
  /\ saving # NoValue
  /\ saving' = NoValue
  /\ UNCHANGED <<nodes, edges, selectedNode, showSODEditor, code, isUnsaved,
                 currentWorkflow>>
  /\ UNCHANGED <<server, panel>>

\* the canvas and the SOD policy editor; the browser's clock is the clock
\* of the host
EditorNext ==
  \/ \E nodeType \in PaletteTypes : \E at \in DropPoints : onDrop(nodeType, at)
  \/ \E s \in DOMAIN nodes : \E t \in DOMAIN nodes : s < t /\ onConnect(s, t)
  \/ \E k \in DOMAIN nodes : handleEditSODPolicy(k)
  \/ \E text \in PolicyDrafts : setCode(text)
  \/ handleSave
  \/ onClose
  \/ TimePasses

EditorSpec == Init /\ [][EditorNext]_vars

\* the canvas and the saving of the workflow
SaveNext ==
  \/ \E nodeType \in PaletteTypes : \E at \in DropPoints : onDrop(nodeType, at)
  \/ \E s \in DOMAIN nodes : \E t \in DOMAIN nodes : s < t /\ onConnect(s, t)
  \/ \E name \in WorkflowNames : handleSaveWorkflow(name)
  \/ saveOnSuccess
  \/ saveOnError
  \/ TimePasses

SaveSpec == Init /\ [][SaveNext]_vars

\* ------------------------------------------------------- the job store
\* times are seconds since the epoch, where the host's clock starts (the
\* code counts milliseconds: 60 * 60 * 1000 for an hour)
Hour == 60 * 60
Day == 24 * Hour

\* new Date(text).getTime() for the ISO texts the scheduler dialog sends
DateParse(text) ==
  CASE text = "1970-01-01T01:00:00.000Z" -> Hour
    [] text = "1970-01-02T00:00:00.000Z" -> Day

\* the days from the first of January 1970 to the first of the month that
\* is n months off
DaysToMonth(n) ==
  CASE n = -2 -> -61
    [] n = -1 -> -31
    [] n = 0 -> 0
    [] n = 1 -> 31
    [] n = 2 -> 59
    [] n = 3 -> 90

\* nextMonth.setMonth(nextMonth.getMonth() + n) for a date t in the first
\* hours of January 1970
AddMonths(t, n) == t + DaysToMonth(n) * Day

\* MemStorage.calculateNextRun(config) at clock reading t
calculateNextRun(config, t) ==
  LET interval == IF Truthy(GetProp(config, "interval"))
                  THEN GetProp(config, "interval")
                  ELSE Str("daily")
      intervalValue == IF Truthy(GetProp(config, "intervalValue"))
                       THEN GetProp(config, "intervalValue").n
                       ELSE 1
  IN CASE interval = Str("hourly") -> t + intervalValue * Hour
       [] interval = Str("daily") -> t + intervalValue * Day
       [] interval = Str("weekly") -> t + intervalValue * 7 * Day
       [] interval = Str("monthly") -> AddMonths(t, intervalValue)
       [] OTHER -> t + Day

\* the nextRunAt createJob computes (null: none)
NextRunAt(job, t) ==
  IF job["scheduleType"] = Str("once") /\ Truthy(GetProp(job["scheduleConfig"], "executeAt"))
  THEN Num(DateParse(GetProp(job["scheduleConfig"], "executeAt").s))
  ELSE IF job["scheduleType"] = Str("recurring")
       THEN Num(calculateNextRun(job["scheduleConfig"], t))
       ELSE Null

\* { ...job, id, status: job.status || 'pending',
\*   description: job.description || null, createdAt: now, updatedAt: now,
\*   lastRunAt: null, nextRunAt }
NewJob(job, id, t) ==
  [k \in DOMAIN job \cup {"id", "status", "description", "createdAt",
                          "updatedAt", "lastRunAt", "nextRunAt"} |->
     CASE k = "id" -> id
       [] k = "status" -> IF "status" \in DOMAIN job /\ Truthy(job["status"])
                          THEN job["status"]
                          ELSE Str("pending")
       [] k = "description" -> IF "description" \in DOMAIN job /\ Truthy(job["description"])
                               THEN job["description"]
                               ELSE Null
       [] k = "createdAt" -> t
       [] k = "updatedAt" -> t
       [] k = "lastRunAt" -> Null
       [] k = "nextRunAt" -> NextRunAt(job, t)
       [] OTHER -> job[k]]

\* MemStorage.createJob; calculateNextRun reads the clock at the reading
\* createJob took
createJob(job) ==
  /\ currentJobId <= MaxJobId
  /\ jobs' = [k \in DOMAIN jobs \cup {currentJobId} |->
                IF k = currentJobId THEN NewJob(job, currentJobId, now) ELSE jobs[k]]
  /\ currentJobId' = currentJobId + 1
  /\ UNCHANGED <<users, workflows, currentUserId, currentWorkflowId>>
  /\ UNCHANGED <<evaluator, now, out>>
  /\ UNCHANGED client

\* MemStorage.updateJob: { ...existing, ...job, updatedAt: new Date() }, or
\* nothing for an id that is not stored
updateJob(id, job) ==
  /\ id \in DOMAIN jobs
  /\ jobs' = [jobs EXCEPT ![id] = UpdatedWorkflow(jobs[id], job, now)]
  /\ UNCHANGED <<users, workflows, currentUserId, currentWorkflowId, currentJobId>>
  /\ UNCHANGED <<evaluator, now, out>>
  /\ UNCHANGED client

\* the schedules the scheduler dialog can send: once with or without a date,
\* recurring with an interval and the number typed into the field (the field
\* is not validated; an empty field is left out), cron, event
Intervals == {"hourly", "daily", "weekly", "monthly"}
IntervalValues == {1, 2, -1}

ScheduleConfigs(scheduleType) ==
  CASE scheduleType = "once" ->
         {Obj([executeAt |-> Str("1970-01-01T01:00:00.000Z")]), EmptyObj}
    [] scheduleType = "recurring" ->
         {Obj([interval |-> Str(i), intervalValue |-> Num(v)]) :
            i \in Intervals, v \in IntervalValues}
         \cup {Obj([interval |-> Str(i)]) : i \in Intervals}
         \cup {EmptyObj}
    [] scheduleType = "cron" -> {Obj([cronExpression |-> Str("0 9 * * 1-5")])}
    [] scheduleType = "event" -> {Obj([eventType |-> Str("webhook")])}

ScheduleTypes == {"once", "recurring", "cron", "event"}

JobInputs ==
  UNION {{[workflowId |-> 1, name |-> Str("Nightly"), description |-> Null,
           scheduleType |-> Str(ty), scheduleConfig |-> c] :
            c \in ScheduleConfigs(ty)} : ty \in ScheduleTypes}

JobUpdates ==
  {[scheduleType |-> Str("cron")],
   [scheduleConfig |-> Obj([interval |-> Str("hourly"), intervalValue |-> Num(2)])]}

\* the job store alone
JobNext ==
  \/ \E job \in JobInputs : createJob(job)
  \/ \E id \in 1..MaxJobId : \E job \in JobUpdates : updateJob(id, job)
  \/ TimePasses

JobSpec == Init /\ [][JobNext]_vars

\* ------------------------------------------------------------------ claims
Answered(i) == resp[i] # <<>>
Reply(i) == resp[i][1]

\* the request of i passed the field validation and reached the evaluator
Evaluated(i) == req[i] # NoValue /\ ~MissingFields(req[i])
Source(i) == req[i].code.s

\* a verdict as the script contract writes it: {valid: boolean} with an
\* optional reason string and nothing else
IsVerdict(v) ==
  /\ v.t = "object"
  /\ "valid" \in DOMAIN v.p
  /\ DOMAIN v.p \subseteq {"valid", "reason"}
  /\ v.p["valid"].t = "boolean"
  /\ "reason" \in DOMAIN v.p => v.p["reason"].t = "string"

\* what validateSOD does for the fixtures of request i
CallOf(i) ==
  CallValidateSOD(Source(i), req[i].testUser, req[i].testAction,
                  IF Truthy(req[i].testContext) THEN req[i].testContext ELSE EmptyObj,
                  0)

\* the script of i defines validateSOD and the call returns a verdict
ReturnsVerdict(i) ==
  /\ Evaluated(i)
  /\ WrapperCompiles(Source(i))
  /\ ~ScriptLoops(Source(i))
  /\ Program(Source(i)).decl = "function"
  /\ CallOf(i).k = "return"
  /\ IsVerdict(CallOf(i).v)

\* C1 (as claimed): when validateSOD returns a verdict V, the response is
\* 200 {success: true, result: V}, with valid and reason as returned.
C1_Claim ==
  \A i \in Ids :
    ReturnsVerdict(i) /\ Answered(i) =>
      resp[i] = <<Response(200, Obj([success |-> Bool(TRUE), result |-> CallOf(i).v]))>>

\* validateSOD of i throws an Error object
ThrowsError(i) ==
  /\ Evaluated(i)
  /\ WrapperCompiles(Source(i))
  /\ ~ScriptLoops(Source(i))
  /\ Program(Source(i)).decl = "function"
  /\ CallOf(i).k = "throw"
  /\ CallOf(i).v.t = "error"

\* C2: when validateSOD throws Error("X"), the response is 200
\* {success: true, result: {valid: false, reason: "X"}}.
C2_ThrownMessageIsReason ==
  \A i \in Ids :
    ThrowsError(i) /\ Answered(i) =>
      resp[i] = <<Response(200,
                    Obj([success |-> Bool(TRUE),
                         result |-> Obj([valid |-> Bool(FALSE),
                                         reason |-> CallOf(i).v.message])]))>>

C2_Witness ==
  \E i \in Ids :
    /\ ThrowsError(i)
    /\ CallOf(i).v.message = Str("X")
    /\ Answered(i)
    /\ pc[i] = "Threw"

\* the body of a response is {success: false, error: a string}
IsFailure(body) ==
  /\ body.t = "object"
  /\ DOMAIN body.p = {"success", "error"}
  /\ body.p["success"] = Bool(FALSE)
  /\ body.p["error"].t = "string"

\* C3 (as claimed): a script that parses but leaves no callable validateSOD
\* is answered with success: false and an error string.
C3_Claim ==
  \A i \in Ids :
    /\ Evaluated(i)
    /\ Program(Source(i)).script
    /\ Program(Source(i)).decl # "function"
    /\ Answered(i)
    => IsFailure(Reply(i).body)

\* C4 (as claimed): a script text with a syntax error is answered with
\* {success: false, error: E}, E non-empty, without a result, and is never run.
C4_Claim ==
  \A i \in Ids :
    /\ Evaluated(i)
    /\ ~Program(Source(i)).script
    /\ Answered(i)
    => /\ IsFailure(Reply(i).body)
       /\ Reply(i).body.p["error"].s # ""
       /\ runs[i] = 0

\* C5: a script that does not end is aborted once the 5000 ms budget is used
\* up, and the request is answered {success: false, error: E} with E the
\* timeout message; the handler gives the thread back.
C5_TimeoutIsReported ==
  \A i \in Ids :
    Evaluated(i) /\ WrapperCompiles(Source(i)) /\ ScriptLoops(Source(i)) =>
      /\ pc[i] \in {"Compiling", "Running", "TimedOut"}
      /\ pc[i] = "Running" => elapsed[i] < TimeoutMs + TickMs
      /\ pc[i] = "TimedOut" => elapsed[i] >= TimeoutMs
      /\ Answered(i) =>
           /\ pc[i] = "TimedOut"
           /\ resp[i] = <<Response(500, Obj([success |-> Bool(FALSE),
                                             error |-> Str(TimeoutMessage)]))>>
           /\ cur # i

C5_Witness ==
  \E i \in Ids :
    /\ Evaluated(i)
    /\ Source(i) = SrcFnLoop
    /\ Answered(i)
    /\ Reply(i).body.p.error = Str(TimeoutMessage)

\* C6 (as claimed): every request is answered exactly once, whatever the
\* script does: never twice, and a request that has arrived and is not yet
\* answered always has a handler step ahead of it.
C6_Claim ==
  \A i \in Ids :
    /\ Len(resp[i]) <= 1
    /\ pc[i] # "None" => Len(resp[i]) = 1 \/ ENABLED HostStep

\* the body of a response is {success: true, result: V} for a value V
IsSuccess(body) ==
  /\ body.t = "object"
  /\ DOMAIN body.p = {"success", "result"}
  /\ body.p["success"] = Bool(TRUE)
  /\ body.p["result"].t = "object"
  /\ "valid" \in DOMAIN body.p["result"].p
  /\ body.p["result"].p["valid"].t = "boolean"

\* C7 (as claimed): every answer of the evaluator has one of the two shapes,
\* {success: true, result: Verdict} or {success: false, error: string}.
C7_Claim ==
  \A i \in Ids :
    Evaluated(i) /\ Answered(i) =>
      IsSuccess(Reply(i).body) \/ IsFailure(Reply(i).body)

IsPrefix(s, t) == Len(s) <= Len(t) /\ \A k \in 1..Len(s) : s[k] = t[k]

\* C8 (as claimed): the states of an invocation are Idle, Compiling, Running
\* and then one of Succeeded, Threw, TimedOut, or Idle, Compiling,
\* CompileFailed; Succeeded and Threw are answered success: true, TimedOut
\* and CompileFailed success: false.
C8_Claim ==
  \A i \in Ids :
    /\ \/ hist[i] = <<"Idle", "Rejected">>
       \/ IsPrefix(hist[i], <<"Idle", "Compiling", "CompileFailed">>)
       \/ \E t \in {"Succeeded", "Threw", "TimedOut"} :
            IsPrefix(hist[i], <<"Idle", "Compiling", "Running", t>>)
    /\ Answered(i) /\ pc[i] \in {"Succeeded", "Threw"} =>
         Reply(i).body.p["success"] = Bool(TRUE)
    /\ Answered(i) /\ pc[i] \in {"TimedOut", "CompileFailed"} =>
         Reply(i).body.p["success"] = Bool(FALSE)

\* a required field of the body is absent
FieldAbsent(b) ==
  \/ b.code = Undefined
  \/ b.testUser = Undefined
  \/ b.testAction = Undefined

\* C9: a request without code, testUser or testAction is answered 400 before
\* the evaluator is reached: nothing is compiled or run and no sandbox or
\* context is made for it.
C9_MissingFieldRejected ==
  \A i \in Ids :
    req[i] # NoValue /\ FieldAbsent(req[i]) =>
      /\ resp[i] = <<Response(400, Obj([message |-> Str("Missing required fields")]))>>
      /\ hist[i] = <<"Idle", "Rejected">>
      /\ sandbox[i] = NoValue
      /\ compiles[i] = 0
      /\ contexts[i] = 0
      /\ runs[i] = 0

C9_Witness ==
  \E i \in Ids :
    /\ req[i] # NoValue
    /\ req[i].testAction = Undefined
    /\ Truthy(req[i].code)
    /\ Truthy(req[i].testUser)
    /\ Reply(i).status = 400

\* C10 (as claimed): the script of an invocation never reads a binding of
\* another invocation, and each answer carries its own invocation's result.
C10_Claim ==
  \A i \in Ids :
    /\ seen[i] \subseteq {i}
    /\ Answered(i) /\ Evaluated(i) /\ "result" \in DOMAIN Reply(i).body.p =>
         Reply(i).body.p["result"] = Json(sandbox[i].result)

\* what the script of i leaves in a context no earlier script has touched
FreshRun(i) == RunScript(Source(i), NewSandbox(req[i]), 0)

\* C11 (as claimed): every invocation runs as in a brand-new context: when
\* its script has ended, the result slot holds what the same script leaves
\* there when no script ran before it; nothing an earlier script did shows.
C11_Claim ==
  \A i \in Ids :
    Evaluated(i) /\ pc[i] \in {"Succeeded", "Threw"} =>
      sandbox[i].result = FreshRun(i).result

\* C12 (as claimed): an evaluation in progress does not keep the host from
\* serving others: while one invocation is Running, the handler of another
\* request that has arrived can start.
C12_Claim ==
  \A i \in Ids : \A j \in Ids \ {i} :
    pc[i] = "Running" /\ pc[j] = "Idle" => ENABLED Validate(j)

\* C13 (as claimed): a script reads and affects only user, action, context
\* and result: no script changes a host object outside them, and the answer
\* to a request is the same whatever the host's state outside its inputs is.
C13_Claim ==
  /\ hostProto = 0
  /\ \A i \in Ids :
       Answered(i) /\ Evaluated(i) /\ Reply(i).status = 200 =>
         Reply(i).body = Json(SuccessBody(FreshRun(i).result))

\* a step of the handler of invocation i once it holds the thread
HandlerStep(i) ==
  \/ Compile(i)
  \/ Run(i)
  \/ Tick(i)
  \/ Abort(i)
  \/ Respond(i)
  \/ Catch(i)

\* the evaluation of i failed because of its script
ScriptFailed(i) ==
  \/ thrown[i] # NoValue
  \/ pc[i] \in {"CompileFailed", "Threw", "TimedOut"}

\* C14 (as claimed): every failure that comes from the script is contained:
\* the handler that holds the thread always has a step ahead until it has
\* answered, an exception on its way is caught, and the answer to a failed
\* evaluation has one of the two structured shapes.
C14_Claim ==
  \A i \in Ids :
    Evaluated(i) =>
      /\ cur = i => ENABLED HandlerStep(i)
      /\ thrown[i] # NoValue => Answered(i) \/ ENABLED Catch(i)
      /\ ScriptFailed(i) /\ Answered(i) =>
           IsSuccess(Reply(i).body) \/ IsFailure(Reply(i).body)

\* the exception of i is none of the evaluator's own outcomes (compile
\* failure, timeout): it reached the handler's catch from elsewhere
Escaped(i) ==
  /\ thrown[i] # NoValue
  /\ pc[i] \notin {"CompileFailed", "TimedOut"}

\* C15 (as claimed): an exception that escapes the evaluator is answered 500
\* with the generic message; nothing of the host error is in the body.
C15_Claim ==
  \A i \in Ids :
    Escaped(i) /\ Answered(i) =>
      resp[i] = <<Response(500, Obj([success |-> Bool(FALSE),
                                     error |-> Str("Code execution failed")]))>>

\* the answer of the example: the amount is over the user's limit
OverLimitReply ==
  Response(200, Obj([success |-> Bool(TRUE),
                     result |-> Obj([valid |-> Bool(FALSE),
                                     reason |-> Str("over limit")])]))

\* the request of i is the example: the limit script, approvalLimit 100,
\* amount 150
IsExample(i) ==
  /\ Evaluated(i)
  /\ Source(i) = SrcLimit
  /\ GetProp(req[i].testUser, "approvalLimit") = Num(100)
  /\ GetProp(req[i].testAction, "amount") = Num(150)

\* C16 (as claimed): user is testUser, action is testAction, context is
\* testContext whenever the request supplies one and {} when it has none, and
\* the example is answered valid: false, reason 'over limit'.
C16_Claim ==
  \A i \in Ids :
    Evaluated(i) /\ sandbox[i] # NoValue =>
      /\ sandbox[i].user = req[i].testUser
      /\ sandbox[i].action = req[i].testAction
      /\ sandbox[i].context =
           IF req[i].testContext # Undefined THEN req[i].testContext ELSE EmptyObj
      /\ IsExample(i) /\ Answered(i) => Reply(i) = OverLimitReply

\* C16 (amended): user is testUser, action is testAction, context is
\* testContext when that is a truthy value and {} otherwise (absent, null, 0,
\* false or ""), and the example is answered valid: false, reason 'over limit'.
C16_FixturesBoundInOrder ==
  \A i \in Ids :
    Evaluated(i) /\ sandbox[i] # NoValue =>
      /\ sandbox[i].user = req[i].testUser
      /\ sandbox[i].action = req[i].testAction
      /\ sandbox[i].context =
           IF Truthy(req[i].testContext) THEN req[i].testContext ELSE EmptyObj
      /\ IsExample(i) /\ Answered(i) => Reply(i) = OverLimitReply

C16_Witness ==
  \E i \in Ids :
    /\ IsExample(i)
    /\ req[i].testContext = Undefined
    /\ sandbox[i].context = EmptyObj
    /\ pc[i] = "Succeeded"
    /\ Answered(i)
    /\ Reply(i) = OverLimitReply

\* C17 (as claimed): every answer with success: true whose result has valid
\* false carries a reason that is a non-empty string.
C17_Claim ==
  \A i \in Ids :
    /\ Evaluated(i)
    /\ Answered(i)
    /\ IsSuccess(Reply(i).body)
    /\ Reply(i).body.p["result"].p["valid"] = Bool(FALSE)
    => /\ "reason" \in DOMAIN Reply(i).body.p["result"].p
       /\ Reply(i).body.p["result"].p["reason"].t = "string"
       /\ Reply(i).body.p["result"].p["reason"].s # ""

\* C18: a request makes a single attempt: its text is compiled at most once
\* and run at most once, and after a compile failure, a thrown error or a
\* timeout the evaluator's state stays as it is: it never goes back to
\* compiling.
C18_SingleAttempt ==
  \A i \in Ids :
    /\ compiles[i] <= 1
    /\ contexts[i] <= 1
    /\ runs[i] <= compiles[i]
    /\ \A k \in 1..Len(hist[i]) :
         (hist[i][k] = "CompileFailed" \/ hist[i][k] = "Threw" \/ hist[i][k] = "TimedOut")
           => k = Len(hist[i])
    /\ Evaluated(i) /\ ScriptFailed(i) => pc[i] # "Compiling"

C18_Witness ==
  \E i \in Ids : \E j \in Ids :
    /\ pc[i] = "CompileFailed"
    /\ Answered(i)
    /\ compiles[i] = 1
    /\ runs[i] = 0
    /\ pc[j] = "TimedOut"
    /\ Answered(j)
    /\ compiles[j] = 1
    /\ runs[j] = 1

\* a step of the policy test endpoint for some request
PolicyTestStep == \E i \in Ids : Validate(i) \/ HandlerStep(i)

\* C19: no step of the policy test handler changes the store: the maps of
\* workflows, jobs and users and the three id counters are the same before
\* and after it, whatever the request and its outcome.
C19_StoreUntouched == [][UNCHANGED storage \/ ~PolicyTestStep]_vars

\* a policy test was answered 500 in a run in which the workflow routes
\* created a workflow and updated the sample workflow
C19_Witness ==
  /\ Answered(1)
  /\ Reply(1).status = 500
  /\ 2 \in DOMAIN workflows
  /\ workflows[1] # SampleWorkflow

\* a step of one of the two routes that save a workflow
SaveStep ==
  \/ \E b \in PostBodies : PostWorkflow(b)
  \/ \E id \in 1..MaxWorkflowId : \E b \in PutBodies : PutWorkflow(id, b)

\* the policy texts in the nodes of a workflow's data
PolicyTexts(data) ==
  {data.p["nodes"].a[k].p["data"].p["sodPolicy"].s :
     k \in {n \in 1..Len(data.p["nodes"].a) :
              "sodPolicy" \in DOMAIN data.p["nodes"].a[n].p["data"].p}}

\* C20: saving a workflow never executes a policy: a create or an update
\* leaves the evaluator as it is and stores the data of the body, policy
\* texts included, as it came; the script counters only move in a compile
\* step of the policy test endpoint.
C20_NoExecutionAtSave ==
  [][/\ UNCHANGED evaluator \/ ~SaveStep
     /\ \A b \in PostBodies :
          PostWorkflow(b) /\ ValidWorkflow(b, FALSE) =>
            workflows'[currentWorkflowId].data = b["data"]
     /\ \A id \in DOMAIN workflows : \A b \in PutBodies :
          PutWorkflow(id, b) /\ ValidWorkflow(b, TRUE) /\ "data" \in DOMAIN b =>
            workflows'[id].data = b["data"]
     /\ compiles' # compiles \/ contexts' # contexts \/ runs' # runs =>
          \E i \in Ids : Compile(i)
    ]_vars

\* two workflows with policy texts are stored, one that loops and one that
\* does not parse, and nothing was ever compiled or run
C20_Witness ==
  /\ 2 \in DOMAIN workflows
  /\ PolicyTexts(workflows[2].data) = {SrcBodyLoop}
  /\ PolicyTexts(workflows[1].data) = {SrcSyntax}
  /\ \A i \in Ids : compiles[i] = 0 /\ runs[i] = 0
  /\ cur = 0

\* The sandbox object and the context of i are locals of the handler: the
\* host refers to them from the handler's frame, that is while the handler
\* of i runs.  What a script stores on the host prototype is its user
\* object, which refers to neither.
HostRefersTo(i) == cur = i \/ unwatched = i

Others(o, name) == [k \in DOMAIN o.p \ {name} |-> o.p[k]]

\* saving the policy of the node at k changed nothing of that node but
\* data.sodPolicy
OnlyPolicyChanged(before, after) ==
  /\ after.t = "object"
  /\ Others(after, "data") = Others(before, "data")
  /\ Others(GetProp(after, "data"), "sodPolicy") = Others(GetProp(before, "data"), "sodPolicy")

\* C23: saving a policy from the SOD policy editor changes only the sodPolicy
\* field of the edited node: every other node of the editor's list is
\* unchanged, and the edited node keeps its id, type, position and all other
\* data fields.
C23_Claim ==
  [][handleSave =>
       /\ DOMAIN nodes' = DOMAIN nodes
       /\ \A k \in DOMAIN nodes :
            IF GetProp(nodes[k], "id") = GetProp(selectedNode, "id")
            THEN OnlyPolicyChanged(nodes[k], nodes'[k])
            ELSE nodes'[k] = nodes[k]]_vars

\* the nodes and edges the editor holds are the ones of the workflow that
\* was saved last (nothing was saved: the empty lists it started with)
SameAsSaved ==
  IF currentWorkflow = Null
  THEN nodes = <<>> /\ edges = <<>>
  ELSE Json(EditorData(nodes, edges)) = currentWorkflow.data

\* C24: in the workflow editor, whenever isUnsaved is false the current nodes
\* and edges equal the ones most recently saved or loaded, also when edits
\* interleave with a save that is in flight.
C24_Claim == ~isUnsaved => SameAsSaved

\* C29: after any sequence of node drops the ids of the nodes in the canvas
\* state are pairwise distinct, also when two nodes of the same type are
\* dropped at the same clock reading.
C29_Claim ==
  \A j \in DOMAIN nodes : \A k \in DOMAIN nodes :
    j # k => GetProp(reactFlowNodes(nodes)[j], "id") # GetProp(reactFlowNodes(nodes)[k], "id")

\* a required field of the body is present and falsy
PresentFalsy == Falsy \ {Undefined}
FieldFalsy(b) ==
  \/ b.code = Str("")
  \/ b.testUser \in PresentFalsy
  \/ b.testAction \in PresentFalsy

\* every required field is given, and a fixture is the empty object
EmptyFixture(b) ==
  /\ ~FieldAbsent(b)
  /\ ~FieldFalsy(b)
  /\ b.testUser = EmptyObj \/ b.testAction = EmptyObj

\* C25: a request with a required field that is present but falsy (code "",
\* testUser or testAction null, 0, false or "") is answered 400 and nothing
\* is compiled or run for it; a request with {} for testUser or testAction is
\* accepted and its script is evaluated.
C25_FalsyFieldRejected ==
  \A i \in Ids :
    req[i] # NoValue =>
      /\ FieldFalsy(req[i]) =>
           /\ resp[i] = <<Response(400, Obj([message |-> Str("Missing required fields")]))>>
           /\ sandbox[i] = NoValue
           /\ compiles[i] = 0
           /\ contexts[i] = 0
           /\ runs[i] = 0
      /\ EmptyFixture(req[i]) =>
           /\ pc[i] # "Rejected"
           /\ sandbox[i] # NoValue
           /\ Answered(i) =>
                /\ Reply(i).status = 200
                /\ compiles[i] = 1
                /\ runs[i] = 1

C25_Witness ==
  /\ \E i \in Ids :
       /\ req[i] # NoValue
       /\ req[i].testUser = Num(0)
       /\ Answered(i)
       /\ Reply(i).status = 400
  /\ \E i \in Ids :
       /\ req[i] # NoValue
       /\ req[i].testAction = EmptyObj
       /\ Answered(i)
       /\ Reply(i).status = 200

\* every stored workflow carries the key it is stored under, and every key
\* was assigned: it is below the counter
KeysAreIds ==
  /\ currentWorkflowId >= 2
  /\ \A k \in DOMAIN workflows :
       /\ workflows[k].id = k
       /\ k < currentWorkflowId

\* an id that enters the store is the counter's value, above every id
\* assigned before, and the counter moves past it; the counter never goes
\* back
NewIdsAreFresh ==
  /\ currentWorkflowId' >= currentWorkflowId
  /\ \A k \in DOMAIN workflows' \ DOMAIN workflows :
       /\ k = currentWorkflowId
       /\ currentWorkflowId' > k

\* C26: after any sequence of createWorkflow, updateWorkflow and
\* deleteWorkflow every stored workflow's id equals its key (so ids are
\* pairwise distinct), and createWorkflow gives an id greater than every id
\* assigned before, starting at 2: an id is never reused after a delete.
C26_IdsNeverReused == []KeysAreIds /\ [][NewIdsAreFresh]_vars

\* the sample workflow was deleted and a workflow was created after that,
\* and a stored workflow was updated with a body that carried an id
C26_Witness ==
  /\ 1 \notin DOMAIN workflows
  /\ 2 \in DOMAIN workflows
  /\ workflows[2].name = Str("Renamed")

\* a GET, a DELETE or a PUT with a valid body for id
RequestFor(id) ==
  \/ GetWorkflow(id)
  \/ DeleteWorkflow(id)
  \/ \E b \in StorePutBodies : ValidWorkflow(b, TRUE) /\ PutWorkflow(id, b)

\* an id that was assigned and is not in the store: it was deleted
Deleted(id) == id < currentWorkflowId /\ id \notin DOMAIN workflows

\* C27: a GET, a PUT with a valid body or a DELETE for an id that is not in
\* the store is answered 404 and leaves the store unchanged; an id that was
\* deleted never comes back, so every later request for it is answered 404.
C27_MissingIdNotFound ==
  [][\A id \in RequestIds :
       /\ id \in DOMAIN workflows \/ ~RequestFor(id)
            \/ (out' = WorkflowNotFound /\ UNCHANGED storage)
       /\ Deleted(id) => id \notin DOMAIN workflows']_vars

\* the sample workflow was deleted, another workflow is stored, and the
\* last request was answered 404
C27_Witness ==
  /\ 1 \notin DOMAIN workflows
  /\ 2 \in DOMAIN workflows
  /\ out = WorkflowNotFound

\* what a PUT of body b may change of the stored workflow: the fields the
\* schema keeps of b, and updatedAt
OnlySuppliedChanged(before, after, b) ==
  /\ DOMAIN after = DOMAIN before
  /\ after.id = before.id
  /\ after.createdAt = before.createdAt
  /\ \A f \in DOMAIN before \ {"updatedAt"} :
       IF f \in DOMAIN b \cap InsertWorkflowKeys
       THEN after[f] = b[f]
       ELSE after[f] = before[f]

\* C28: updateWorkflow on an existing id changes only the fields supplied in
\* the update and updatedAt: id and createdAt are preserved, fields not
\* supplied keep their values, every other stored workflow and the id
\* counter are unchanged.
C28_UpdateFrame ==
  [][\A id \in DOMAIN workflows : \A b \in StorePutBodies :
       ~(ValidWorkflow(b, TRUE) /\ PutWorkflow(id, b))
       \/ /\ DOMAIN workflows' = DOMAIN workflows
          /\ currentWorkflowId' = currentWorkflowId
          /\ \A k \in DOMAIN workflows \ {id} : workflows'[k] = workflows[k]
          /\ OnlySuppliedChanged(workflows[id], workflows'[id], b)
          /\ workflows'[id].updatedAt = now]_vars

\* the sample workflow was renamed after the clock went on, next to
\* another stored workflow
C28_Witness ==
  /\ 1 \in DOMAIN workflows
  /\ 2 \in DOMAIN workflows
  /\ workflows[1].name = Str("Renamed")
  /\ workflows[1].description = SampleWorkflow.description
  /\ workflows[1].createdAt = 0
  /\ workflows[1].updatedAt = 1

\* the job createJob stored for input job has the nextRunAt, status and
\* lastRunAt of the claim
ScheduledAsClaimed(job, new) ==
  /\ job["scheduleType"] = Str("once") /\ "executeAt" \in DOMAIN job["scheduleConfig"].p =>
       new.nextRunAt = Num(DateParse(job["scheduleConfig"].p["executeAt"].s))
  /\ job["scheduleType"] = Str("recurring") =>
       /\ new.nextRunAt.t = "number"
       /\ new.nextRunAt.n > new.createdAt
  /\ \/ job["scheduleType"] \in {Str("cron"), Str("event")}
     \/ job["scheduleType"] = Str("once") /\ "executeAt" \notin DOMAIN job["scheduleConfig"].p
     => new.nextRunAt = Null
  /\ "status" \notin DOMAIN job => new.status = Str("pending")
  /\ new.lastRunAt = Null

\* C30: createJob sets nextRunAt from the schedule (once with executeAt: that
\* instant; recurring: strictly later than the creation time; cron, event
\* or once without executeAt: null), status defaults to pending and
\* lastRunAt is null; a later updateJob that changes scheduleType or
\* scheduleConfig leaves nextRunAt unchanged.
C30_Claim ==
  [][/\ \A job \in JobInputs :
          createJob(job) => ScheduledAsClaimed(job, jobs'[currentJobId])
     /\ \A id \in DOMAIN jobs : \A job \in JobUpdates :
          updateJob(id, job) => jobs'[id].nextRunAt = jobs[id].nextRunAt]_vars

====
